---- MODULE Spec2Model ----
(***************************************************************************)
(* Model of null-space-core: the vault container codec (export_vault /     *)
(* import_vault over a zip archive), the conflict engine (detect_conflicts *)
(* / resolve_conflict) and the AEAD layer they use.                        *)
(*                                                                         *)
(* Bytes are modelled symbolically: a byte string is either UTF-8 text     *)
(* holding a JSON document, an AES-256-GCM box (nonce || ciphertext+tag)   *)
(* or other bytes.  Random draws (Uuid::new_v4, OsRng nonces) are values   *)
(* the generator has not produced before.                                  *)
(***************************************************************************)
EXTENDS Naturals, Sequences, FiniteSets, TLC

VARIABLES
    call,     \* the call the host makes on the library: its name and arguments
    ret,      \* what that call returned (NoReturn until it has run)
    fs,       \* the archive file at the export / import path
    storage,  \* the files of the FileStorage the VaultManager holds
    imp,      \* the import_vault call made on the archive, with its result
    held,     \* the Note the host holds
    clock,    \* the system clock, as Utc::now() reads it
    managers, \* the memory of each EncryptionManager handle
    blobs,    \* the byte strings encrypt has returned, as they are now
    rng,      \* the nonces OsRng has produced
    dec       \* the decrypt call made on a blob, with its result

vaultVars == <<call, ret, fs, storage, imp>>

noteVars == <<held, clock>>

cryptoVars == <<managers, blobs, rng, dec>>

vars == <<call, ret, fs, storage, imp, held, clock, managers, blobs, rng, dec>>

(***************************************************************************)
(* Bounds of the model.                                                    *)
(***************************************************************************)
MaxNotes == 2

(***************************************************************************)
(* models.rs: Note, Vault, ConflictResolution.                             *)
(***************************************************************************)
Uuids == {"u1", "u2", "u3", "u4"}

NoteIds == {"u1", "u2", "u3"}

VaultIds == {"v1", "v2"}

Titles == {"A", "B"}

Note == [id : NoteIds, title : Titles, content : {"c"}, tags : {<<>>},
         created_at : {1}, updated_at : {1, 2}, version : {1, 2}]

ConflictResolution == {"Overwrite", "KeepBoth", "Skip"}

RECURSIVE SeqsUpTo(_, _)
SeqsUpTo(S, n) ==
    IF n = 0 THEN {<<>>}
    ELSE LET shorter == SeqsUpTo(S, n - 1)
         IN  shorter \cup {Append(s, x) : s \in {t \in shorter : Len(t) = n - 1}, x \in S}

Elems(s) == {s[k] : k \in 1..Len(s)}

HasDistinctIds(notes) ==
    \A a, b \in 1..Len(notes) : notes[a].id = notes[b].id => a = b

(***************************************************************************)
(* vault.rs: the conflict engine.                                          *)
(***************************************************************************)
\* existing_notes.iter().find(|n| n.id == imported.id): the index of the first
\* match, 0 for None.
\* A search that returns the last note of the id.
FindLastById(existing_notes, id) ==
    LET hits == {k \in 1..Len(existing_notes) : existing_notes[k].id = id}
    IN  IF hits = {} THEN 0 ELSE CHOOSE k \in hits : \A j \in hits : k >= j

FindById(existing_notes, id) ==
    LET hits == {k \in 1..Len(existing_notes) : existing_notes[k].id = id}
    IN  IF hits = {} THEN 0 ELSE CHOOSE k \in hits : \A j \in hits : k <= j

IsConflictVersionOnly(existing, imported) ==
    existing.version # imported.version

\* The condition under which the loop body pushes a pair.
IsConflict(existing, imported) ==
    \/ existing.version # imported.version
    \/ existing.updated_at # imported.updated_at

\* A detection that walks the existing list and looks each note up among the
\* imported ones.
RECURSIVE detect_conflicts_by_existing(_, _)
detect_conflicts_by_existing(existing_notes, imported_notes) ==
    IF existing_notes = <<>> THEN <<>>
    ELSE LET existing == Head(existing_notes)
             k        == FindById(imported_notes, existing.id)
             rest     == detect_conflicts_by_existing(Tail(existing_notes), imported_notes)
         IN  IF k # 0 /\ IsConflict(existing, imported_notes[k])
             THEN <<<<existing, imported_notes[k]>>>> \o rest
             ELSE rest

RECURSIVE detect_conflicts(_, _)
detect_conflicts(existing_notes, imported_notes) ==
    IF imported_notes = <<>> THEN <<>>
    ELSE LET imported == Head(imported_notes)
             k        == FindById(existing_notes, imported.id)
             rest     == detect_conflicts(existing_notes, Tail(imported_notes))
         IN  IF k # 0 /\ IsConflict(existing_notes[k], imported)
             THEN <<<<existing_notes[k], imported>>>> \o rest
             ELSE rest

\* Uuid::new_v4(): a value the generator has not produced before; every id
\* already in use came from the same generator.
NewV4(known) == Uuids \ known

ImportedCopySuffix == " (Imported Copy)"

KeepBothCopyKeepsId(imported, fresh) ==
    [imported EXCEPT !.title = imported.title \o ImportedCopySuffix]

\* The copy the KeepBoth arm builds from the imported note.
KeepBothCopy(imported, fresh) ==
    [imported EXCEPT !.id = fresh,
                     !.title = imported.title \o ImportedCopySuffix]

resolve_conflict_swapped(existing, imported, resolution, fresh) ==
    CASE resolution = "Overwrite" -> <<existing>>
      [] resolution = "KeepBoth"  -> <<existing, KeepBothCopy(imported, fresh)>>
      [] resolution = "Skip"      -> <<imported>>

resolve_conflict_newest(existing, imported, resolution, fresh) ==
    CASE resolution = "Overwrite" ->
             IF imported.version >= existing.version THEN <<imported>> ELSE <<existing>>
      [] resolution = "KeepBoth"  -> <<existing, KeepBothCopy(imported, fresh)>>
      [] resolution = "Skip"      -> <<existing>>

\* An Overwrite that takes the imported note but keeps the local version
\* number.
resolve_conflict_keeping_version(existing, imported, resolution, fresh) ==
    CASE resolution = "Overwrite" -> <<[imported EXCEPT !.version = existing.version]>>
      [] resolution = "KeepBoth"  -> <<existing, KeepBothCopy(imported, fresh)>>
      [] resolution = "Skip"      -> <<existing>>

\* A resolution that leaves the existing note alone when the two notes agree
\* on version and updated_at.
resolve_conflict_if_diverged(existing, imported, resolution, fresh) ==
    IF ~IsConflict(existing, imported) THEN <<existing>>
    ELSE CASE resolution = "Overwrite" -> <<imported>>
           [] resolution = "KeepBoth"  -> <<existing, KeepBothCopy(imported, fresh)>>
           [] resolution = "Skip"      -> <<existing>>

resolve_conflict(existing, imported, resolution, fresh) ==
    CASE resolution = "Overwrite" -> <<imported>>
      [] resolution = "KeepBoth"  -> <<existing, KeepBothCopy(imported, fresh)>>
      [] resolution = "Skip"      -> <<existing>>

(***************************************************************************)
(* serde_json: a JSON value is [js, v]; an object's v is the sequence of   *)
(* its <<key, value>> members in the order the fields are declared.        *)
(***************************************************************************)
JStr(x) == [js |-> "string", v |-> x]

JNum(x) == [js |-> "number", v |-> x]

JArr(x) == [js |-> "array", v |-> x]

JObj(x) == [js |-> "object", v |-> x]

JMissing == [js |-> "missing", v |-> 0]

\* chrono's RFC 3339 text of a DateTime<Utc>, by timestamp.
TimeStrings ==
    <<"1970-01-01T00:00:01Z", "1970-01-01T00:00:02Z", "1970-01-01T00:00:03Z">>

FormatTime(t) == TimeStrings[t]

\* The field of an object a derived Deserialize reads: present exactly once.
Member(doc, key) ==
    IF doc.js # "object" THEN JMissing
    ELSE LET hits == {k \in 1..Len(doc.v) : doc.v[k][1] = key}
         IN  IF Cardinality(hits) = 1 THEN doc.v[CHOOSE k \in hits : TRUE][2]
             ELSE JMissing

IsStr(j) == j.js = "string"

IsUuid(j) == j.js = "string" /\ j.v \in Uuids \cup VaultIds

IsTime(j) == j.js = "string" /\ \E t \in 1..Len(TimeStrings) : TimeStrings[t] = j.v

ParseTime(j) == CHOOSE t \in 1..Len(TimeStrings) : TimeStrings[t] = j.v

IsNum(j) == j.js = "number"

IsStrArr(j) == j.js = "array" /\ \A k \in 1..Len(j.v) : IsStr(j.v[k])

\* #[derive(Serialize)] for Note.
NoteToJson(note) ==
    JObj(<< <<"id", JStr(note.id)>>,
            <<"title", JStr(note.title)>>,
            <<"content", JStr(note.content)>>,
            <<"tags", JArr([k \in 1..Len(note.tags) |-> JStr(note.tags[k])])>>,
            <<"created_at", JStr(FormatTime(note.created_at))>>,
            <<"updated_at", JStr(FormatTime(note.updated_at))>>,
            <<"version", JNum(note.version)>> >>)

\* #[derive(Deserialize)] for Note: [ok, value].
NoteFromJson(doc) ==
    LET id == Member(doc, "id")
        title == Member(doc, "title")
        content == Member(doc, "content")
        tags == Member(doc, "tags")
        created == Member(doc, "created_at")
        updated == Member(doc, "updated_at")
        version == Member(doc, "version")
    IN  IF /\ IsUuid(id) /\ IsStr(title) /\ IsStr(content) /\ IsStrArr(tags)
           /\ IsTime(created) /\ IsTime(updated) /\ IsNum(version)
        THEN [ok |-> TRUE,
              value |-> [id |-> id.v, title |-> title.v, content |-> content.v,
                         tags |-> [k \in 1..Len(tags.v) |-> tags.v[k].v],
                         created_at |-> ParseTime(created),
                         updated_at |-> ParseTime(updated),
                         version |-> version.v]]
        ELSE [ok |-> FALSE]

Salts == {"s1"}

Vault == [id : VaultIds, name : {"V"}, description : {"d"}, created_at : {1},
          updated_at : {1}, salt : Salts]

VaultToJson(vault) ==
    JObj(<< <<"id", JStr(vault.id)>>,
            <<"name", JStr(vault.name)>>,
            <<"description", JStr(vault.description)>>,
            <<"created_at", JStr(FormatTime(vault.created_at))>>,
            <<"updated_at", JStr(FormatTime(vault.updated_at))>>,
            <<"salt", JStr(vault.salt)>> >>)

VaultFromJson(doc) ==
    LET id == Member(doc, "id")
        name == Member(doc, "name")
        description == Member(doc, "description")
        created == Member(doc, "created_at")
        updated == Member(doc, "updated_at")
        salt == Member(doc, "salt")
    IN  IF /\ IsUuid(id) /\ IsStr(name) /\ IsStr(description)
           /\ IsTime(created) /\ IsTime(updated) /\ IsStr(salt)
        THEN [ok |-> TRUE,
              value |-> [id |-> id.v, name |-> name.v, description |-> description.v,
                         created_at |-> ParseTime(created),
                         updated_at |-> ParseTime(updated), salt |-> salt.v]]
        ELSE [ok |-> FALSE]

SchemaVersion == "1.0"

\* The record export_vault builds.
VaultMetadata(vault, notes, now) ==
    [vault |-> vault, note_count |-> Len(notes), export_date |-> now,
     version |-> SchemaVersion]

MetadataToJson(metadata) ==
    JObj(<< <<"vault", VaultToJson(metadata.vault)>>,
            <<"note_count", JNum(metadata.note_count)>>,
            <<"export_date", JStr(FormatTime(metadata.export_date))>>,
            <<"version", JStr(metadata.version)>> >>)

MetadataFromJson(doc) ==
    LET vault == VaultFromJson(Member(doc, "vault"))
        count == Member(doc, "note_count")
        date == Member(doc, "export_date")
        version == Member(doc, "version")
    IN  IF vault.ok /\ IsNum(count) /\ IsTime(date) /\ IsStr(version)
        THEN [ok |-> TRUE,
              value |-> [vault |-> vault.value, note_count |-> count.v,
                         export_date |-> ParseTime(date), version |-> version.v]]
        ELSE [ok |-> FALSE]

(***************************************************************************)
(* Byte strings.  "utf8": the UTF-8 text of a JSON document; "aead": what  *)
(* encrypt returns, nonce || ciphertext || tag, by the key, nonce and      *)
(* plaintext that made it (intact until a byte of it is changed); "junk":  *)
(* any other bytes, valid UTF-8 or not, never JSON.                        *)
(***************************************************************************)
NonceLen == 12

TagLen == 16

Utf8Json(doc) == [kind |-> "utf8", json |-> doc]

Junk(utf8, len) == [kind |-> "junk", utf8 |-> utf8, len |-> len]

Nonces == {"n1", "n2"}

\* Whether the bytes of a box happen to be valid UTF-8: a function of the
\* key, nonce and plaintext.  Boxes under nonce n2 stand for those that are.
BoxIsUtf8(data) == data.nonce = "n2"

RECURSIVE ByteLen(_)
ByteLen(data) ==
    CASE data.kind = "utf8" -> 2 + 6 * Len(data.json.v)
      [] data.kind = "aead" -> NonceLen + ByteLen(data.plain) + TagLen
      [] data.kind = "junk" -> data.len

\* String::from_utf8: [ok, json (the document the text holds, if it is JSON)].
NotJson == [isJson |-> FALSE]

from_utf8(data) ==
    CASE data.kind = "utf8" -> [ok |-> TRUE, text |-> [isJson |-> TRUE, doc |-> data.json]]
      [] data.kind = "aead" -> [ok |-> BoxIsUtf8(data), text |-> NotJson]
      [] data.kind = "junk" -> [ok |-> data.utf8, text |-> NotJson]

(***************************************************************************)
(* crypto.rs: EncryptionManager.                                           *)
(***************************************************************************)
Passwords == {"pw1", "pw2"}

\* Argon2 of (password, salt), first 32 bytes: the key is named by its inputs.
new_from_password(password, salt) ==
    IF salt \in Salts
    THEN [ok |-> TRUE, value |-> [key |-> <<password, salt>>]]
    ELSE [ok |-> FALSE, err |-> "KeyDerivationFailed"]

\* Option<&EncryptionManager>.
None == [some |-> FALSE]

Some(x) == [some |-> TRUE, value |-> x]

Ciphers == {new_from_password(p, s).value : p \in Passwords, s \in Salts}

\* An encrypt that returns the ciphertext and tag without the nonce in front:
\* the first 12 bytes of the result are ciphertext.
encrypt_without_nonce(self, plaintext, nonce) ==
    [ok |-> TRUE,
     value |-> [kind |-> "aead", nonce |-> "ciphertext", iv |-> nonce,
                key |-> self.key, plain |-> plaintext, intact |-> TRUE]]

\* encrypt, with the nonce OsRng drew: nonce holds the first 12 bytes of the
\* result, iv the nonce the ciphertext and tag were made under.
encrypt(self, plaintext, nonce) ==
    [ok |-> TRUE,
     value |-> [kind |-> "aead", nonce |-> nonce, iv |-> nonce, key |-> self.key,
                plain |-> plaintext, intact |-> TRUE]]

decrypt_any_key(self, encrypted_data) ==
    IF ByteLen(encrypted_data) < NonceLen
    THEN [ok |-> FALSE, err |-> "DecryptionFailed", msg |-> "Data too short to contain nonce"]
    ELSE IF /\ encrypted_data.kind = "aead"
            /\ encrypted_data.nonce = encrypted_data.iv
            /\ encrypted_data.intact
         THEN [ok |-> TRUE, value |-> encrypted_data.plain]
         ELSE [ok |-> FALSE, err |-> "DecryptionFailed", msg |-> "aead::Error"]

\* A decrypt without the length test: split_at(12) panics on shorter data.
decrypt_unchecked_length(self, encrypted_data) ==
    IF ByteLen(encrypted_data) < NonceLen
    THEN [ok |-> FALSE, err |-> "panic", msg |-> "mid > len"]
    ELSE IF /\ encrypted_data.kind = "aead"
            /\ encrypted_data.key = self.key
            /\ encrypted_data.nonce = encrypted_data.iv
            /\ encrypted_data.intact
         THEN [ok |-> TRUE, value |-> encrypted_data.plain]
         ELSE [ok |-> FALSE, err |-> "DecryptionFailed", msg |-> "aead::Error"]

\* A decrypt that runs the cipher without verifying the tag: changed bytes
\* come out as changed plaintext.
decrypt_unauthenticated(self, encrypted_data) ==
    IF ByteLen(encrypted_data) < NonceLen
    THEN [ok |-> FALSE, err |-> "DecryptionFailed", msg |-> "Data too short to contain nonce"]
    ELSE IF encrypted_data.kind = "aead" /\ encrypted_data.key = self.key
         THEN IF encrypted_data.nonce = encrypted_data.iv /\ encrypted_data.intact
              THEN [ok |-> TRUE, value |-> encrypted_data.plain]
              ELSE [ok |-> TRUE, value |-> Junk(FALSE, ByteLen(encrypted_data.plain))]
         ELSE [ok |-> FALSE, err |-> "DecryptionFailed", msg |-> "aead::Error"]

\* A decrypt whose message tells a wrong key from changed bytes.
decrypt_telling_why(self, encrypted_data) ==
    IF ByteLen(encrypted_data) < NonceLen
    THEN [ok |-> FALSE, err |-> "DecryptionFailed", msg |-> "Data too short to contain nonce"]
    ELSE IF encrypted_data.kind = "aead" /\ encrypted_data.key # self.key
         THEN [ok |-> FALSE, err |-> "DecryptionFailed", msg |-> "wrong key"]
         ELSE IF /\ encrypted_data.kind = "aead"
                 /\ encrypted_data.nonce = encrypted_data.iv
                 /\ encrypted_data.intact
              THEN [ok |-> TRUE, value |-> encrypted_data.plain]
              ELSE [ok |-> FALSE, err |-> "DecryptionFailed", msg |-> "aead::Error"]

\* decrypt: the first 12 bytes are taken for the nonce; the tag verifies only
\* for a box made under the same key and that nonce, with no byte changed.
\* Every failure of the cipher is the one opaque aead::Error.
decrypt(self, encrypted_data) ==
    IF ByteLen(encrypted_data) < NonceLen
    THEN [ok |-> FALSE, err |-> "DecryptionFailed", msg |-> "Data too short to contain nonce"]
    ELSE IF /\ encrypted_data.kind = "aead"
            /\ encrypted_data.key = self.key
            /\ encrypted_data.nonce = encrypted_data.iv
            /\ encrypted_data.intact
         THEN [ok |-> TRUE, value |-> encrypted_data.plain]
         ELSE [ok |-> FALSE, err |-> "DecryptionFailed", msg |-> "aead::Error"]

\* The memory of a cipher after it was overwritten with zeros.
Zeroed == [key |-> <<>>]

\* Drop for EncryptionManager, then the drop of its cipher field: the memory
\* the handle leaves.  The body of drop is empty; the cipher wipes its own
\* key schedule only in a build of the aes-gcm crate with its zeroize feature.
drop(self, zeroize_feature) == IF zeroize_feature THEN Zeroed ELSE self

(***************************************************************************)
(* vault.rs: the archive.  A zip file holds entries in the order they were *)
(* written; it can be opened only once its central directory is written    *)
(* (closed); rewritten says that another program has changed it since.     *)
(* An entry name is its directory prefix, stem and extension.              *)
(***************************************************************************)
MetadataName == [dir |-> "", stem |-> "metadata", ext |-> ".json"]

\* format!("notes/{}.json", note.id)
NoteEntryName(id) == [dir |-> "notes/", stem |-> id, ext |-> ".json"]

IsNoteEntryByPrefix(name) == name.dir = "notes/"

\* name.starts_with("notes/") && name.ends_with(".json")
IsNoteEntry(name) == name.dir = "notes/" /\ name.ext = ".json"

Ok(x) == [ok |-> TRUE, value |-> x]

Err(e) == [ok |-> FALSE, err |-> e]

Unit == "()"

\* The bytes export_vault writes for one note.
NotePayloadPlainAlways(note, encryption, nonce) == Utf8Json(NoteToJson(note))

NotePayload(note, encryption, nonce) ==
    IF encryption.some
    THEN encrypt(encryption.value, Utf8Json(NoteToJson(note)), nonce).value
    ELSE Utf8Json(NoteToJson(note))

\* An export that writes the note entries last note first.
ArchiveEntriesLastFirst(vault, notes, encryption, now, nonces) ==
    <<[name |-> MetadataName,
       data |-> Utf8Json(MetadataToJson(VaultMetadata(vault, notes, now)))]>>
    \o [k \in 1..Len(notes) |->
           [name |-> NoteEntryName(notes[Len(notes) + 1 - k].id),
            data |-> NotePayload(notes[Len(notes) + 1 - k], encryption, nonces[k])]]

\* Every entry of a complete export, metadata.json first.
ArchiveEntries(vault, notes, encryption, now, nonces) ==
    <<[name |-> MetadataName,
       data |-> Utf8Json(MetadataToJson(VaultMetadata(vault, notes, now)))]>>
    \o [k \in 1..Len(notes) |->
           [name |-> NoteEntryName(notes[k].id),
            data |-> NotePayload(notes[k], encryption, nonces[k])]]

\* The places export_vault can fail with an I/O error: File::create, the
\* start_file or write_all of entry j (1 is metadata.json), finish.
\* to_string_pretty and encrypt do not fail on the notes drawn here.
NoFault == [at |-> "none", j |-> 0, dropOk |-> TRUE]

Faults(n) ==
    {NoFault}
    \cup [at : {"create"}, j : {0}, dropOk : {TRUE}]
    \cup [at : {"start_file", "write_all"}, j : 1..(n + 1), dropOk : BOOLEAN]
    \cup [at : {"finish"}, j : {0}, dropOk : BOOLEAN]

ErrorOf(fault) ==
    CASE fault.at = "create"     -> "IoError"
      [] fault.at = "start_file" -> "ZipError"
      [] fault.at = "write_all"  -> "IoError"
      [] fault.at = "finish"     -> "ZipError"

\* What the file holds when entry fault.j could not be started or written:
\* the entries before it and, for a failed write, entry j with no data.
WrittenBefore(entries, fault) ==
    CASE fault.at = "start_file" -> SubSeq(entries, 1, fault.j - 1)
      [] fault.at = "write_all"  ->
             Append(SubSeq(entries, 1, fault.j - 1),
                    [name |-> entries[fault.j].name, data |-> Junk(TRUE, 0)])
      [] fault.at = "finish"     -> entries

\* A ZipWriter dropped before finish: its Drop writes the central directory
\* of the entries started so far, when that write succeeds.
ZipWriterDrop(entries, dropOk) ==
    [exists |-> TRUE, closed |-> dropOk, entries |-> entries, rewritten |-> FALSE]

\* export_vault: [ret, fs], the result and the file it leaves.
export_vault(file, vault, notes, encryption, now, nonces, fault) ==
    LET entries == ArchiveEntries(vault, notes, encryption, now, nonces)
    IN  CASE fault.at = "none" ->
                 [ret |-> Ok(Unit),
                  fs |-> [exists |-> TRUE, closed |-> TRUE, entries |-> entries,
                          rewritten |-> FALSE]]
          [] fault.at = "create" ->
                 [ret |-> Err(ErrorOf(fault)), fs |-> file]
          [] OTHER ->
                 [ret |-> Err(ErrorOf(fault)),
                  fs |-> ZipWriterDrop(WrittenBefore(entries, fault), fault.dropOk)]

\* A reading that takes the bytes as they are when they do not decrypt.
ReadNoteFallingBack(data, encryption) ==
    LET opened == IF encryption.some THEN decrypt(encryption.value, data) ELSE Ok(data)
        plain == IF opened.ok THEN opened ELSE Ok(data)
        text == from_utf8(plain.value)
    IN  IF ~text.ok THEN Err("InvalidFormat")
        ELSE IF ~text.text.isJson THEN Err("SerializationError")
        ELSE LET note == NoteFromJson(text.text.doc)
             IN  IF note.ok THEN Ok(note.value) ELSE Err("SerializationError")

\* One notes/*.json entry read back: decrypt if a cipher is given, decode
\* UTF-8, parse.
ReadNote(data, encryption) ==
    LET plain == IF encryption.some THEN decrypt(encryption.value, data) ELSE Ok(data)
    IN  IF ~plain.ok THEN Err("EncryptionError")
        ELSE LET text == from_utf8(plain.value)
             IN  IF ~text.ok THEN Err("InvalidFormat")
                 ELSE IF ~text.text.isJson THEN Err("SerializationError")
                 ELSE LET note == NoteFromJson(text.text.doc)
                      IN  IF note.ok THEN Ok(note.value) ELSE Err("SerializationError")

RECURSIVE ReadNotesSkipping(_, _, _, _)
ReadNotesSkipping(entries, i, encryption, notes) ==
    IF i > Len(entries) THEN Ok(notes)
    ELSE IF IsNoteEntry(entries[i].name)
         THEN LET note == ReadNote(entries[i].data, encryption)
              IN  ReadNotesSkipping(entries, i + 1, encryption,
                                    IF note.ok THEN Append(notes, note.value) ELSE notes)
         ELSE ReadNotesSkipping(entries, i + 1, encryption, notes)

\* The loop over the entries, from entry i on; notes holds those pushed so far.
RECURSIVE ReadNotes(_, _, _, _)
ReadNotes(entries, i, encryption, notes) ==
    IF i > Len(entries) THEN Ok(notes)
    ELSE IF IsNoteEntry(entries[i].name)
         THEN LET note == ReadNote(entries[i].data, encryption)
              IN  IF note.ok
                  THEN ReadNotes(entries, i + 1, encryption, Append(notes, note.value))
                  ELSE note
         ELSE ReadNotes(entries, i + 1, encryption, notes)

\* zip.by_name("metadata.json"), read_to_string, serde_json::from_str.
ReadMetadataLegacyErrors(entries) ==
    LET hits == {k \in 1..Len(entries) : entries[k].name = MetadataName}
    IN  IF hits = {} THEN Err("InvalidFormat")
        ELSE LET text == from_utf8(entries[CHOOSE k \in hits : TRUE].data)
             IN  IF ~text.ok THEN Err("InvalidFormat")
                 ELSE IF ~text.text.isJson THEN Err("InvalidFormat")
                 ELSE LET metadata == MetadataFromJson(text.text.doc)
                      IN  IF metadata.ok THEN Ok(metadata.value)
                          ELSE Err("InvalidFormat")

ReadMetadata(entries) ==
    LET hits == {k \in 1..Len(entries) : entries[k].name = MetadataName}
    IN  IF hits = {} THEN Err("ZipError")
        ELSE LET text == from_utf8(entries[CHOOSE k \in hits : TRUE].data)
             IN  IF ~text.ok THEN Err("IoError")
                 ELSE IF ~text.text.isJson THEN Err("SerializationError")
                 ELSE LET metadata == MetadataFromJson(text.text.doc)
                      IN  IF metadata.ok THEN Ok(metadata.value)
                          ELSE Err("SerializationError")

\* An import that applies Skip against the notes in local storage.
import_vault_applying_policy(local_storage, file, encryption, conflict_resolution) ==
    IF ~file.exists THEN Err("IoError")
    ELSE IF ~file.closed THEN Err("ZipError")
    ELSE LET metadata == ReadMetadata(file.entries)
         IN  IF ~metadata.ok THEN metadata
             ELSE LET notes == ReadNotes(file.entries, 1, encryption, <<>>)
                      local == {f.path : f \in local_storage}
                  IN  IF ~notes.ok THEN notes
                      ELSE Ok([vault |-> metadata.value.vault,
                               notes |-> IF conflict_resolution = "Skip"
                                         THEN SelectSeq(notes.value,
                                                  LAMBDA n : NoteEntryName(n.id) \notin local)
                                         ELSE notes.value])

\* import_vault on the file, for a manager holding local_storage.
import_vault(local_storage, file, encryption, conflict_resolution) ==
    IF ~file.exists THEN Err("IoError")
    ELSE IF ~file.closed THEN Err("ZipError")
    ELSE LET metadata == ReadMetadata(file.entries)
         IN  IF ~metadata.ok THEN metadata
             ELSE LET notes == ReadNotes(file.entries, 1, encryption, <<>>)
                  IN  IF ~notes.ok THEN notes
                      ELSE Ok([vault |-> metadata.value.vault, notes |-> notes.value])

(***************************************************************************)
(* Calls on the conflict engine.  The host's arguments are drawn in Init;  *)
(* each action runs the called function on them.                           *)
(***************************************************************************)
NoReturn == [done |-> FALSE]

NoFile == [exists |-> FALSE]

NoNote == [exists |-> FALSE]

Handles == {"h1", "h2"}

\* A handle new_from_password has not returned yet.
NoManager == [state |-> "none"]

\* No note is held, no cipher has been made.
NoteIdle == held = NoNote /\ clock = 1

CryptoIdle ==
    /\ managers = [h \in Handles |-> NoManager]
    /\ blobs = <<>>
    /\ rng = {}
    /\ dec = NoReturn

\* Notes as the conflict engine compares them: title, content and tags play no
\* part in detect_conflicts.
DetectNote == {n \in Note : n.title = "A" /\ n.id \in {"u1", "u2"}}

DetectCalls ==
    [op : {"detect_conflicts"},
     existing : SeqsUpTo(DetectNote, MaxNotes),
     imported : SeqsUpTo(DetectNote, MaxNotes)]

ResolveCalls ==
    [op : {"resolve_conflict"}, existing : Note, imported : Note,
     resolution : ConflictResolution]

DetectConflicts ==
    /\ call.op = "detect_conflicts"
    /\ ~ret.done
    /\ ret' = [done |-> TRUE, value |-> detect_conflicts(call.existing, call.imported)]
    /\ UNCHANGED <<call, fs, storage, imp>>
    /\ UNCHANGED <<noteVars, cryptoVars>>

ResolveConflict ==
    /\ call.op = "resolve_conflict"
    /\ ~ret.done
    /\ \E fresh \in NewV4({call.existing.id, call.imported.id}) :
           ret' = [done |-> TRUE, fresh |-> fresh,
                   value |-> resolve_conflict(call.existing, call.imported,
                                              call.resolution, fresh)]
    /\ UNCHANGED <<call, fs, storage, imp>>
    /\ UNCHANGED <<noteVars, cryptoVars>>

\* The ids of the notes of a list.
IdsOf(notes) == {notes[k].id : k \in 1..Len(notes)}

\* The index of the first pair whose existing note is existing_notes[k] found
\* as the first note of its id, or 0.
PairOf(existing_notes, pairs, k) ==
    LET hits == {q \in 1..Len(pairs) :
                    /\ pairs[q][1] = existing_notes[k]
                    /\ FindById(existing_notes, existing_notes[k].id) = k}
    IN  IF hits = {} THEN 0 ELSE CHOOSE q \in hits : \A r \in hits : q <= r

\* The local notes after every pair was resolved under one policy: the
\* existing note of a pair gives way to what resolve_conflict returns for it.
RECURSIVE ResolveAll(_, _, _, _, _)
ResolveAll(existing_notes, pairs, resolution, fresh, k) ==
    IF k > Len(existing_notes) THEN <<>>
    ELSE LET q == PairOf(existing_notes, pairs, k)
         IN  (IF q = 0 THEN <<existing_notes[k]>>
              ELSE resolve_conflict(pairs[q][1], pairs[q][2], resolution, fresh[k]))
             \o ResolveAll(existing_notes, pairs, resolution, fresh, k + 1)

\* The ids Uuid::new_v4 draws for the notes of the list: all new, all
\* different.
FreshIds(existing_notes, known) ==
    {f \in [1..Len(existing_notes) -> NewV4(known)] :
        \A a, b \in 1..Len(existing_notes) : f[a] = f[b] => a = b}

\* The host resolves every reported pair under one policy and runs the
\* detection again on what it now holds.
ResolveAndDetectAgain ==
    /\ call.op = "detect_conflicts"
    /\ ret.done
    /\ ~imp.done
    /\ \E resolution \in ConflictResolution :
           \E fresh \in FreshIds(call.existing, IdsOf(call.existing) \cup IdsOf(call.imported)) :
               LET local == ResolveAll(call.existing, ret.value, resolution, fresh, 1)
               IN  imp' = [done |-> TRUE, resolution |-> resolution, local |-> local,
                           value |-> detect_conflicts(local, call.imported)]
    /\ UNCHANGED <<call, ret, fs, storage>>
    /\ UNCHANGED <<noteVars, cryptoVars>>

InitConflict ==
    /\ call \in DetectCalls \cup ResolveCalls
    /\ ret = NoReturn
    /\ fs = NoFile
    /\ storage = {}
    /\ imp = NoReturn
    /\ NoteIdle
    /\ CryptoIdle

NextConflict == DetectConflicts \/ ResolveConflict \/ ResolveAndDetectAgain

SpecConflict == InitConflict /\ [][NextConflict]_vars

(***************************************************************************)
(* The vault codec at work: the host exports the vault and notes drawn in  *)
(* Init, the archive may be rewritten by others before it comes back, and  *)
(* the host imports it.                                                    *)
(***************************************************************************)
\* Notes as they are exported: a first version titled A, a second titled B.
ExportNote ==
    {n \in Note : n.updated_at = n.version /\ (n.title = "A" <=> n.version = 1)}

\* The nonces OsRng draws for n calls of encrypt: no value twice.
DistinctNonces(n) ==
    {s \in SeqsUpTo(Nonces, n) : Len(s) = n /\ \A a, b \in 1..n : s[a] = s[b] => a = b}

\* encrypt is called once per note, and only when a cipher is given.
NoncesDrawn(encryption, n) ==
    IF encryption.some THEN DistinctNonces(n) ELSE {[k \in 1..n |-> "n1"]}

Encryptions == {None} \cup {Some(c) : c \in Ciphers}

ExportCalls ==
    [op : {"export_vault"},
     vault : Vault,
     notes : {l \in SeqsUpTo(ExportNote, MaxNotes) : HasDistinctIds(l)},
     encryption : Encryptions,
     now : {2}]

\* What the local FileStorage may hold when the calls are made.
StoredNote ==
    [id |-> "u1", title |-> "A", content |-> "c", tags |-> <<>>,
     created_at |-> 1, updated_at |-> 1, version |-> 1]

StorageStates ==
    {{}, {[path |-> NoteEntryName("u1"), data |-> Utf8Json(NoteToJson(StoredNote))]}}

ExportVault ==
    /\ call.op = "export_vault"
    /\ ~ret.done
    /\ \E nonces \in NoncesDrawn(call.encryption, Len(call.notes)), fault \in Faults(Len(call.notes)) :
           LET out == export_vault(fs, call.vault, call.notes, call.encryption,
                                   call.now, nonces, fault)
           IN  /\ ret' = [done |-> TRUE, value |-> out.ret]
               /\ fs' = out.fs
    /\ UNCHANGED <<call, storage, imp>>
    /\ UNCHANGED <<noteVars, cryptoVars>>

\* Another program rewrites one entry of the archive: a changed byte in a
\* box, other bytes in place of a JSON text.
Damaged(data) ==
    IF data.kind = "aead" THEN {[data EXCEPT !.intact = FALSE]}
    ELSE {Junk(TRUE, 20), Junk(FALSE, 20)}

CorruptEntry ==
    /\ fs.exists /\ fs.closed /\ ~fs.rewritten
    /\ ~imp.done
    /\ \E i \in 1..Len(fs.entries) :
           \E data \in Damaged(fs.entries[i].data) :
               fs' = [fs EXCEPT !.entries[i].data = data, !.rewritten = TRUE]
    /\ UNCHANGED <<call, ret, storage, imp>>
    /\ UNCHANGED <<noteVars, cryptoVars>>

\* Entry names import_vault does not take for notes.
ForeignNames ==
    {[dir |-> "notes/", stem |-> "u1", ext |-> ".txt"],
     [dir |-> "attachments/", stem |-> "u1", ext |-> ".json"],
     [dir |-> "", stem |-> "README", ext |-> ".json"]}

\* What such an entry may hold: bytes that are no text, the JSON of a note.
ForeignData == {Junk(FALSE, 20), Utf8Json(NoteToJson(StoredNote))}

\* Another program adds one entry of another kind to the archive.
AddForeignEntry ==
    /\ fs.exists /\ fs.closed /\ ~fs.rewritten
    /\ ~imp.done
    /\ \E name \in ForeignNames, data \in ForeignData :
           fs' = [fs EXCEPT !.entries = Append(@, [name |-> name, data |-> data]),
                            !.rewritten = TRUE]
    /\ UNCHANGED <<call, ret, storage, imp>>
    /\ UNCHANGED <<noteVars, cryptoVars>>

ImportVault ==
    /\ call.op = "export_vault"
    /\ ret.done
    /\ ~imp.done
    /\ \E encryption \in Encryptions, conflict_resolution \in ConflictResolution :
           imp' = [done |-> TRUE,
                   encryption |-> encryption,
                   conflict_resolution |-> conflict_resolution,
                   value |-> import_vault(storage, fs, encryption, conflict_resolution)]
    /\ UNCHANGED <<call, ret, fs, storage>>
    /\ UNCHANGED <<noteVars, cryptoVars>>

Init ==
    /\ call \in ExportCalls
    /\ ret = NoReturn
    /\ fs = NoFile
    /\ storage \in StorageStates
    /\ imp = NoReturn
    /\ NoteIdle
    /\ CryptoIdle

Next == ExportVault \/ CorruptEntry \/ AddForeignEntry \/ ImportVault

Spec == Init /\ [][Next]_vars

(***************************************************************************)
(* models.rs, ffi.rs: the life of a note.  The host holds a note, one it    *)
(* made with Note::new or one it parsed from JSON written elsewhere, and   *)
(* updates it, directly or through null_space_update_note, while the       *)
(* system clock moves.                                                     *)
(***************************************************************************)
\* version is a u64; the model carries it at this width, so that every value
\* up to the largest is reached.
VersionBits == 3

VersionMax == 2 ^ VersionBits - 1

Times == 1..Len(TimeStrings)

\* Note::new, with the id Uuid::new_v4 drew and the time Utc::now() read.
NoteNew(title, content, tags, id, now) ==
    [id |-> id, title |-> title, content |-> content, tags |-> tags,
     created_at |-> now, updated_at |-> now, version |-> 1]

\* Note::update: [panic, self].  `self.version += 1` on the largest value
\* panics in a build with overflow checks, after the other fields were set,
\* and wraps to 0 in a build without.
NoteUpdate(self, title, content, tags, now, overflow_checks) ==
    LET set == [self EXCEPT !.title = title, !.content = content, !.tags = tags,
                            !.updated_at = now]
    IN  IF self.version = VersionMax /\ overflow_checks
        THEN [panic |-> TRUE, self |-> set]
        ELSE [panic |-> FALSE,
              self |-> [set EXCEPT !.version = (self.version + 1) % (VersionMax + 1)]]

\* null_space_update_note: [panic, ok, json].  The note is parsed, updated
\* with its own title, content and tags, and serialized.
null_space_update_note(note_json, now, overflow_checks) ==
    LET parsed == NoteFromJson(note_json)
    IN  IF ~parsed.ok THEN [panic |-> FALSE, ok |-> FALSE]
        ELSE LET out == NoteUpdate(parsed.value, parsed.value.title,
                                   parsed.value.content, parsed.value.tags,
                                   now, overflow_checks)
             IN  IF out.panic THEN [panic |-> TRUE, ok |-> FALSE]
                 ELSE [panic |-> FALSE, ok |-> TRUE, json |-> NoteToJson(out.self)]

\* Notes the host may hold that were written elsewhere.
LoadedNote ==
    [id : {"u1"}, title : {"A"}, content : {"c"}, tags : {<<>>},
     created_at : {1}, updated_at : Times, version : 1..VersionMax]

\* The build: with or without overflow checks.
NoteCalls == [op : {"note"}, overflow_checks : BOOLEAN]

CreateNote ==
    /\ call.op = "note"
    /\ ~held.exists
    /\ \E title \in Titles, id \in NewV4({}) :
           held' = [exists |-> TRUE, note |-> NoteNew(title, "c", <<>>, id, clock)]
    /\ UNCHANGED <<call, ret, fs, storage, imp, clock>>
    /\ UNCHANGED cryptoVars

UpdateNote ==
    /\ call.op = "note"
    /\ held.exists
    /\ ~ret.done
    /\ \E title \in Titles :
           LET out == NoteUpdate(held.note, title, "c", <<>>, clock, call.overflow_checks)
           IN  /\ held' = [held EXCEPT !.note = out.self]
               /\ ret' = IF out.panic THEN [done |-> TRUE, value |-> "panic"] ELSE ret
    /\ UNCHANGED <<call, fs, storage, imp, clock>>
    /\ UNCHANGED cryptoVars

\* The host passes the JSON of its note and keeps the note it gets back.
FfiUpdateNote ==
    /\ call.op = "note"
    /\ held.exists
    /\ ~ret.done
    /\ LET out == null_space_update_note(NoteToJson(held.note), clock, call.overflow_checks)
       IN  /\ held' = IF out.ok THEN [held EXCEPT !.note = NoteFromJson(out.json).value]
                      ELSE held
           /\ ret' = IF out.panic THEN [done |-> TRUE, value |-> "panic"] ELSE ret
    /\ UNCHANGED <<call, fs, storage, imp, clock>>
    /\ UNCHANGED cryptoVars

\* Time passes, or the clock is set (by the user, by a time server): Utc::now()
\* reads the system's wall clock.
ClockMoves ==
    /\ call.op = "note"
    /\ ~ret.done
    /\ \E t \in Times \ {clock} : clock' = t
    /\ UNCHANGED <<call, ret, fs, storage, imp, held>>
    /\ UNCHANGED cryptoVars

InitNote ==
    /\ call \in NoteCalls
    /\ ret = NoReturn
    /\ fs = NoFile
    /\ storage = {}
    /\ imp = NoReturn
    /\ held \in {NoNote} \cup {[exists |-> TRUE, note |-> n] : n \in LoadedNote}
    /\ clock \in Times
    /\ CryptoIdle

NextNote == CreateNote \/ UpdateNote \/ FfiUpdateNote \/ ClockMoves

SpecNote == InitNote /\ [][NextNote]_vars

(***************************************************************************)
(* crypto.rs: the life of EncryptionManager handles.  The host derives up  *)
(* to two managers from the credentials drawn in Init, encrypts the        *)
(* plaintext with them, decrypts a blob, drops them; one blob may be       *)
(* changed on the way: a byte of it, or its length.                        *)
(***************************************************************************)
\* How many times encrypt is called.
MaxBlobs == 2

\* Salts that are no base64 text.
BadSalts == {"!"}

\* The 12-byte values OsRng can produce.
NonceValues == Nonces \cup {"n3"}

\* OsRng.fill_bytes(&mut nonce_bytes): 96 random bits, a value not drawn
\* before.
OsRngNonceRepeating(drawn) == NonceValues

OsRngNonce(drawn) == NonceValues \ drawn

Plaintexts == {Junk(TRUE, 0), Utf8Json(NoteToJson(StoredNote))}

CryptoCalls ==
    [op : {"crypto"},
     password : [Handles -> Passwords],
     salt : [Handles -> Salts \cup BadSalts],
     plaintext : Plaintexts,
     zeroize_feature : BOOLEAN]

\* No byte of the blob was changed since encrypt returned it.
Untouched(blob) == blob.flipped = "none"

\* The parts of a blob: nonce || ciphertext || tag.  The ciphertext is as
\* long as the plaintext.
Parts(data) ==
    {"nonce", "tag"} \cup (IF ByteLen(data.plain) > 0 THEN {"ciphertext"} ELSE {})

\* The blob with one byte of the part changed.
FlipByteIn(data, part) ==
    IF part = "nonce"
    THEN {[data EXCEPT !.nonce = n] : n \in NonceValues \ {data.nonce}}
    ELSE {[data EXCEPT !.intact = FALSE]}

NewFromPassword(h) ==
    /\ call.op = "crypto"
    /\ managers[h].state = "none"
    /\ LET made == new_from_password(call.password[h], call.salt[h])
       IN  managers' = [managers EXCEPT ![h] =
                           IF made.ok THEN [state |-> "live", cipher |-> made.value]
                           ELSE [state |-> "failed", err |-> made.err]]
    /\ UNCHANGED <<blobs, rng, dec>>
    /\ UNCHANGED <<vaultVars, noteVars>>

Encrypt(h) ==
    /\ call.op = "crypto"
    /\ managers[h].state = "live"
    /\ Len(blobs) < MaxBlobs
    /\ ~dec.done
    /\ \E nonce \in OsRngNonce(rng) :
           /\ blobs' = Append(blobs,
                   [by |-> h, flipped |-> "none",
                    data |-> encrypt(managers[h].cipher, call.plaintext, nonce).value])
           /\ rng' = rng \cup {nonce}
    /\ UNCHANGED <<managers, dec>>
    /\ UNCHANGED <<vaultVars, noteVars>>

\* One byte of a blob is changed in storage or in transit.
FlipByte(i) ==
    /\ call.op = "crypto"
    /\ i \in 1..Len(blobs)
    /\ \A j \in 1..Len(blobs) : Untouched(blobs[j])
    /\ ~dec.done
    /\ \E part \in Parts(blobs[i].data) :
           \E data \in FlipByteIn(blobs[i].data, part) :
               blobs' = [blobs EXCEPT ![i].data = data, ![i].flipped = part]
    /\ UNCHANGED <<managers, rng, dec>>
    /\ UNCHANGED <<vaultVars, noteVars>>

\* The lengths of a blob cut down to its nonce or less.
ShortLengths == 0..NonceLen

\* Only the first len bytes of a blob arrive: part of the nonce, or the nonce
\* with no ciphertext and no tag behind it.
TruncateBlob(i) ==
    /\ call.op = "crypto"
    /\ i \in 1..Len(blobs)
    /\ \A j \in 1..Len(blobs) : Untouched(blobs[j])
    /\ ~dec.done
    /\ \E len \in ShortLengths :
           blobs' = [blobs EXCEPT ![i].data = Junk(FALSE, len), ![i].flipped = "truncated"]
    /\ UNCHANGED <<managers, rng, dec>>
    /\ UNCHANGED <<vaultVars, noteVars>>

Decrypt(h, i) ==
    /\ call.op = "crypto"
    /\ managers[h].state = "live"
    /\ i \in 1..Len(blobs)
    /\ ~dec.done
    /\ dec' = [done |-> TRUE, handle |-> h, blob |-> i,
               value |-> decrypt(managers[h].cipher, blobs[i].data)]
    /\ UNCHANGED <<managers, blobs, rng>>
    /\ UNCHANGED <<vaultVars, noteVars>>

DropManager(h) ==
    /\ call.op = "crypto"
    /\ managers[h].state = "live"
    /\ managers' = [managers EXCEPT ![h] =
           [state |-> "dropped", cipher |-> drop(@.cipher, call.zeroize_feature)]]
    /\ UNCHANGED <<blobs, rng, dec>>
    /\ UNCHANGED <<vaultVars, noteVars>>

InitCrypto ==
    /\ call \in CryptoCalls
    /\ ret = NoReturn
    /\ fs = NoFile
    /\ storage = {}
    /\ imp = NoReturn
    /\ NoteIdle
    /\ CryptoIdle

NextCrypto ==
    \/ \E h \in Handles : NewFromPassword(h)
    \/ \E h \in Handles : Encrypt(h)
    \/ \E i \in 1..MaxBlobs : FlipByte(i)
    \/ \E i \in 1..MaxBlobs : TruncateBlob(i)
    \/ \E h \in Handles, i \in 1..MaxBlobs : Decrypt(h, i)
    \/ \E h \in Handles : DropManager(h)

SpecCrypto == InitCrypto /\ [][NextCrypto]_vars

(***************************************************************************)
(* ffi.rs: the vault codec as the C interface offers it.  The host exports *)
(* through null_space_export_vault, or the archive was written by          *)
(* export_vault without a cipher, and then imports it through              *)
(* null_space_import_vault.                                                *)
(***************************************************************************)
\* serde_json of a Vec<Note>.
NotesToJson(notes) == JArr([k \in 1..Len(notes) |-> NoteToJson(notes[k])])

NotesFromJson(doc) ==
    IF doc.js = "array" /\ \A k \in 1..Len(doc.v) : NoteFromJson(doc.v[k]).ok
    THEN [ok |-> TRUE, value |-> [k \in 1..Len(doc.v) |-> NoteFromJson(doc.v[k]).value]]
    ELSE [ok |-> FALSE]

\* null_space_export_vault: [ret, fs], the return code and the file it leaves.
null_space_export_vault(file, vault_json, notes_json, password, now, nonces, fault) ==
    LET vault == VaultFromJson(vault_json)
        notes == NotesFromJson(notes_json)
    IN  IF ~vault.ok THEN [ret |-> 0 - 6, fs |-> file]
        ELSE IF ~notes.ok THEN [ret |-> 0 - 7, fs |-> file]
        ELSE LET manager == new_from_password(password, vault.value.salt)
             IN  IF ~manager.ok THEN [ret |-> 0 - 8, fs |-> file]
                 ELSE LET out == export_vault(file, vault.value, notes.value,
                                              Some(manager.value), now, nonces, fault)
                      IN  [ret |-> IF out.ret.ok THEN 0 ELSE 0 - 10, fs |-> out.fs]

\* The null pointer null_space_import_vault returns on an error.
Null == [null |-> TRUE]

\* An import that derives the cipher from the password and the salt in
\* metadata.json.
null_space_import_vault_decrypting(local_storage, file, password) ==
    LET metadata == IF file.exists /\ file.closed THEN ReadMetadata(file.entries)
                    ELSE Err("IoError")
        manager == IF metadata.ok
                   THEN new_from_password(password, metadata.value.vault.salt)
                   ELSE [ok |-> FALSE]
        out == import_vault(local_storage, file,
                            IF manager.ok THEN Some(manager.value) ELSE None, "KeepBoth")
    IN  IF ~out.ok THEN Null
        ELSE [null |-> FALSE,
              json |-> JObj(<< <<"vault", VaultToJson(out.value.vault)>>,
                               <<"notes", NotesToJson(out.value.notes)>> >>)]

\* null_space_import_vault: the password is converted and not used; the
\* import runs without a cipher, under KeepBoth.
null_space_import_vault(local_storage, file, password) ==
    LET out == import_vault(local_storage, file, None, "KeepBoth")
    IN  IF ~out.ok THEN Null
        ELSE [null |-> FALSE,
              json |-> JObj(<< <<"vault", VaultToJson(out.value.vault)>>,
                               <<"notes", NotesToJson(out.value.notes)>> >>)]

\* The vault with a salt new_from_password accepts, and with one it rejects.
FfiVault == Vault \cup {[v EXCEPT !.salt = b] : v \in Vault, b \in BadSalts}

FfiCalls ==
    [op : {"ffi"},
     vault : FfiVault,
     notes : {l \in SeqsUpTo(ExportNote, MaxNotes) : HasDistinctIds(l)},
     password : Passwords,
     now : {2}]

FfiExportVault ==
    /\ call.op = "ffi"
    /\ ~ret.done
    /\ \E nonces \in DistinctNonces(Len(call.notes)), fault \in Faults(Len(call.notes)) :
           LET out == null_space_export_vault(fs, VaultToJson(call.vault),
                          NotesToJson(call.notes), call.password, call.now, nonces, fault)
           IN  /\ ret' = [done |-> TRUE, by |-> "null_space_export_vault", value |-> out.ret]
               /\ fs' = out.fs
    /\ UNCHANGED <<call, storage, imp>>
    /\ UNCHANGED <<noteVars, cryptoVars>>

\* The archive was written by a program that calls export_vault with no
\* cipher.
PlainExportVault ==
    /\ call.op = "ffi"
    /\ ~ret.done
    /\ call.vault \in Vault
    /\ LET out == export_vault(fs, call.vault, call.notes, None, call.now,
                               [k \in 1..Len(call.notes) |-> "n1"], NoFault)
       IN  /\ ret' = [done |-> TRUE, by |-> "export_vault", value |-> out.ret]
           /\ fs' = out.fs
    /\ UNCHANGED <<call, storage, imp>>
    /\ UNCHANGED <<noteVars, cryptoVars>>

FfiImportVault ==
    /\ call.op = "ffi"
    /\ ret.done
    /\ ~imp.done
    /\ \E password \in Passwords :
           imp' = [done |-> TRUE, password |-> password,
                   value |-> null_space_import_vault(storage, fs, password)]
    /\ UNCHANGED <<call, ret, fs, storage>>
    /\ UNCHANGED <<noteVars, cryptoVars>>

InitFfi ==
    /\ call \in FfiCalls
    /\ ret = NoReturn
    /\ fs = NoFile
    /\ storage = {}
    /\ imp = NoReturn
    /\ NoteIdle
    /\ CryptoIdle

NextFfi == FfiExportVault \/ PlainExportVault \/ FfiImportVault

SpecFfi == InitFfi /\ [][NextFfi]_vars

(***************************************************************************)
(* Properties of the conflict engine (SpecConflict).                       *)
(***************************************************************************)
Diverge(e, i) == e.version # i.version \/ e.updated_at # i.updated_at

\* C1: over an existing list whose ids identify its notes, detect_conflicts
\* reports the pair (e, i) exactly when i is an imported note, e is an existing
\* note with e.id = i.id, and version or updated_at differ; an imported note
\* with no existing note of its id, or equal to it in id, version and
\* updated_at, yields no pair.
C1_DetectReportsExactlyDivergentPairs ==
    (call.op = "detect_conflicts" /\ ret.done /\ HasDistinctIds(call.existing)) =>
        /\ Elems(ret.value) =
               {p \in Elems(call.existing) \X Elems(call.imported) :
                    p[1].id = p[2].id /\ Diverge(p[1], p[2])}
        /\ \A k \in 1..Len(call.imported) :
               LET i == call.imported[k]
               IN  (\/ \A e \in Elems(call.existing) : e.id # i.id
                    \/ \E e \in Elems(call.existing) :
                           e.id = i.id /\ e.version = i.version
                                       /\ e.updated_at = i.updated_at)
                   => \A q \in 1..Len(ret.value) : ret.value[q][2] # i

\* A run of detect_conflicts that reports a pair differing in updated_at alone,
\* beside an imported note identical in state to its existing note.
C1_Witness ==
    /\ call.op = "detect_conflicts" /\ ret.done /\ HasDistinctIds(call.existing)
    /\ Len(call.existing) = 2 /\ Len(call.imported) = 2
    /\ Len(ret.value) = 1
    /\ ret.value[1][1].version = ret.value[1][2].version
    /\ ret.value[1][1].updated_at # ret.value[1][2].updated_at
    /\ \E k \in 1..2 : call.imported[k] \in Elems(call.existing)

\* C2: resolve_conflict(existing, imported, KeepBoth) returns two notes: the
\* first is existing unchanged; the second is imported with a new id (not
\* imported.id, not existing.id) and the title followed by " (Imported Copy)",
\* every other field as in imported.
C2_KeepBothKeepsExistingAndRenamedCopy ==
    (call.op = "resolve_conflict" /\ call.resolution = "KeepBoth" /\ ret.done) =>
        /\ Len(ret.value) = 2
        /\ ret.value[1] = call.existing
        /\ ret.value[2].content = call.imported.content
        /\ ret.value[2].tags = call.imported.tags
        /\ ret.value[2].created_at = call.imported.created_at
        /\ ret.value[2].updated_at = call.imported.updated_at
        /\ ret.value[2].version = call.imported.version
        /\ ret.value[2].id \notin {call.imported.id, call.existing.id}
        /\ ret.value[2].title = call.imported.title \o " (Imported Copy)"

C2_Witness ==
    /\ call.op = "resolve_conflict" /\ call.resolution = "KeepBoth" /\ ret.done
    /\ call.existing.id = call.imported.id
    /\ call.existing.title # call.imported.title
    /\ call.existing.version # call.imported.version
    /\ Len(ret.value) = 2
    /\ ret.value[2].title = "B (Imported Copy)"

\* C3: resolve_conflict(existing, imported, Overwrite) returns the imported
\* note alone, unchanged, whichever note has the higher version or the later
\* updated_at.
C3_OverwriteReturnsImported ==
    (call.op = "resolve_conflict" /\ call.resolution = "Overwrite" /\ ret.done) =>
        ret.value = <<call.imported>>

\* Overwrite applied where the existing note is the newer one.
C3_Witness ==
    /\ call.op = "resolve_conflict" /\ call.resolution = "Overwrite" /\ ret.done
    /\ call.existing.id = call.imported.id
    /\ call.existing.version > call.imported.version
    /\ call.existing.updated_at > call.imported.updated_at
    /\ ret.value = <<call.imported>>

\* C4: resolve_conflict(existing, imported, Skip) returns the existing note
\* alone, unchanged.
C4_SkipReturnsExisting ==
    (call.op = "resolve_conflict" /\ call.resolution = "Skip" /\ ret.done) =>
        ret.value = <<call.existing>>

\* Skip applied where the imported note is the newer one and differs.
C4_Witness ==
    /\ call.op = "resolve_conflict" /\ call.resolution = "Skip" /\ ret.done
    /\ call.existing.id = call.imported.id
    /\ call.imported.version > call.existing.version
    /\ call.imported.title # call.existing.title
    /\ ret.value = <<call.existing>>

(***************************************************************************)
(* Properties of the vault codec (Spec).                                   *)
(***************************************************************************)
Readable(file) == file.exists /\ file.closed

NoteEntryIndexes(file) ==
    {i \in 1..Len(file.entries) : IsNoteEntry(file.entries[i].name)}

\* The tag of the entry verifies under the cipher's key.
Decryptable(data, cipher) ==
    data.kind = "aead" /\ data.intact /\ data.nonce = data.iv /\ data.key = cipher.key

MetadataEntries(file) ==
    {i \in 1..Len(file.entries) : file.entries[i].name = MetadataName}

MetadataParses(file) ==
    \E i \in MetadataEntries(file) :
        /\ file.entries[i].data.kind = "utf8"
        /\ MetadataFromJson(file.entries[i].data.json).ok

\* C5: an import with a cipher that reaches the note entries fails with
\* EncryptionError when any notes/*.json entry does not decrypt, and an Ok
\* result holds one note for every notes/*.json entry: none is dropped.
C5_UndecryptableNoteAbortsImport ==
    (imp.done /\ imp.encryption.some /\ Readable(fs) /\ MetadataParses(fs)) =>
        /\ (\E i \in NoteEntryIndexes(fs) :
                ~Decryptable(fs.entries[i].data, imp.encryption.value))
           => imp.value = Err("EncryptionError")
        /\ imp.value.ok => Len(imp.value.value.notes) = Cardinality(NoteEntryIndexes(fs))

\* An import with the right cipher of two notes of which the second was
\* changed: the first decrypts, the import fails.
C5_Witness ==
    /\ imp.done /\ imp.encryption.some /\ Readable(fs) /\ MetadataParses(fs)
    /\ Len(fs.entries) = 3
    /\ Decryptable(fs.entries[2].data, imp.encryption.value)
    /\ fs.entries[3].data.kind = "aead"
    /\ fs.entries[3].data.key = imp.encryption.value.key
    /\ ~fs.entries[3].data.intact
    /\ imp.value = Err("EncryptionError")

\* C6: a successful export of notes with distinct ids, imported from the
\* archive as written with the same cipher option, returns the vault (same
\* id) and the same notes in the same order; for no notes, note_count is 0
\* and the list is empty.
C6_ExportImportRoundTrip ==
    (ret.done /\ ret.value.ok /\ ~fs.rewritten
        /\ imp.done /\ imp.encryption = call.encryption) =>
        /\ imp.value.ok
        /\ imp.value.value.vault.id = call.vault.id
        /\ imp.value.value.vault = call.vault
        /\ Len(imp.value.value.notes) = Len(call.notes)
        /\ imp.value.value.notes = call.notes
        /\ call.notes = <<>> =>
               /\ ReadMetadata(fs.entries).value.note_count = 0
               /\ imp.value.value.notes = <<>>

\* Two notes exported under a cipher and imported under the same one.
C6_Witness ==
    /\ ret.done /\ ret.value.ok /\ ~fs.rewritten
    /\ imp.done /\ imp.encryption = call.encryption /\ call.encryption.some
    /\ Len(call.notes) = 2
    /\ call.notes[1].title # call.notes[2].title
    /\ fs.entries[2].data.kind = "aead"
    /\ imp.value.ok /\ imp.value.value.notes = call.notes

\* C7: an archive exported with a cipher, holding at least one note, does not
\* import under a cipher derived from another passphrase: the result is an
\* error, never a note list.
C7_WrongPassphraseFails ==
    (ret.done /\ ret.value.ok /\ call.encryption.some /\ Len(call.notes) >= 1
        /\ imp.done /\ imp.encryption.some
        /\ imp.encryption.value.key[1] # call.encryption.value.key[1]) =>
        ~imp.value.ok

C7_Witness ==
    /\ ret.done /\ ret.value.ok /\ call.encryption.some /\ Len(call.notes) = 2
    /\ ~fs.rewritten
    /\ imp.done /\ imp.encryption.some
    /\ call.encryption.value.key = <<"pw1", "s1">>
    /\ imp.encryption.value.key = <<"pw2", "s1">>
    /\ imp.value = Err("EncryptionError")

\* C8: after export_vault returns an error, the destination holds no
\* partially written archive that import_vault accepts as a vault: no import
\* of what the failed export left returns Ok with fewer notes than were to be
\* exported.
C8_FailedExportLeavesNoPartialVault ==
    (ret.done /\ ~ret.value.ok /\ ~(fs.exists /\ fs.rewritten)) =>
        \A encryption \in Encryptions, policy \in ConflictResolution :
            LET r == import_vault(storage, fs, encryption, policy)
            IN  ~(r.ok /\ Len(r.value.notes) < Len(call.notes))

\* C9 as stated: an archive with no metadata.json entry, or with one that does
\* not parse into a VaultMetadata, fails to import with InvalidFormat or
\* VaultNotFound.
C9_BadMetadataIsInvalidFormat ==
    (imp.done /\ Readable(fs) /\ ~MetadataParses(fs)) =>
        /\ ~imp.value.ok
        /\ imp.value.err \in {"InvalidFormat", "VaultNotFound"}

\* C9, amended: such an archive fails to import; the error is ZipError when
\* there is no metadata.json entry, IoError when the entry is not UTF-8 and
\* SerializationError when its text is not the JSON of a VaultMetadata.
C9_BadMetadataFailsImport ==
    (imp.done /\ Readable(fs) /\ ~MetadataParses(fs)) =>
        /\ ~imp.value.ok
        /\ MetadataEntries(fs) = {} => imp.value.err = "ZipError"
        /\ \A i \in MetadataEntries(fs) :
               IF from_utf8(fs.entries[i].data).ok
               THEN imp.value.err = "SerializationError"
               ELSE imp.value.err = "IoError"

\* An import of an archive that was closed with no metadata.json entry.
C9_Witness ==
    /\ imp.done /\ Readable(fs) /\ MetadataEntries(fs) = {}
    /\ imp.value = Err("ZipError")

\* C10: the result of import_vault is the same for every conflict policy and
\* whatever the local storage holds, and the call leaves the local storage
\* as it was.
C10_ImportIgnoresPolicyAndLocalState ==
    /\ [](imp.done =>
             \A policy \in ConflictResolution, local \in StorageStates :
                 import_vault(local, fs, imp.encryption, policy) = imp.value)
    /\ [][imp' # imp => storage' = storage]_vars

\* An import under Skip that returns a note whose id the local storage holds
\* in another version.
C10_Witness ==
    /\ imp.done /\ imp.conflict_resolution = "Skip" /\ imp.value.ok
    /\ storage # {}
    /\ \E k \in 1..Len(imp.value.value.notes) :
           /\ imp.value.value.notes[k].id = StoredNote.id
           /\ imp.value.value.notes[k].version # StoredNote.version

(***************************************************************************)
(* Further properties of the conflict engine (SpecConflict).               *)
(***************************************************************************)
\* The imported notes of the pairs, in the order of the pairs.
ImportedOf(pairs) == [q \in 1..Len(pairs) |-> pairs[q][2]]

\* The list in another order: p is a permutation of its indexes.
Reorderings(list) ==
    {[k \in 1..Len(list) |-> list[p[k]]] :
         p \in {f \in [1..Len(list) -> 1..Len(list)] :
                    \A a, b \in 1..Len(list) : f[a] = f[b] => a = b}}

\* C13: the imported notes of the pairs detect_conflicts returns are the
\* imported notes that have a pair, in the order of the imported list, and
\* stay in that order however the existing list is ordered.
C13_PairsFollowImportedOrder ==
    (call.op = "detect_conflicts" /\ ret.done) =>
        \A existing_notes \in Reorderings(call.existing) :
            LET pairs == IF existing_notes = call.existing THEN ret.value
                         ELSE detect_conflicts(existing_notes, call.imported)
            IN  ImportedOf(pairs)
                    = SelectSeq(call.imported,
                                LAMBDA i : \E q \in 1..Len(pairs) : pairs[q][2] = i)

C13_Witness ==
    /\ call.op = "detect_conflicts" /\ ret.done
    /\ Len(ret.value) = 2 /\ Len(call.existing) = 2 /\ Len(call.imported) = 2
    /\ call.existing[1].id = "u2" /\ call.existing[2].id = "u1"
    /\ ret.value[1][2] = call.imported[1] /\ ret.value[1][2].id = "u1"
    /\ ret.value[2][2] = call.imported[2] /\ ret.value[2][2].id = "u2"

\* Where a returned note can come from: it is the existing note, the
\* imported note, or the imported note under a new id and title.
Provenance(r, existing, imported) ==
    {t \in {"existing", "imported", "copy"} :
        \/ t = "existing" /\ r = existing
        \/ t = "imported" /\ r = imported
        \/ t = "copy" /\ r.id \notin {existing.id, imported.id}
                      /\ r = [imported EXCEPT !.id = r.id, !.title = r.title]}

\* The same two notes with other versions and modification times.
Revisions(n) ==
    {[n EXCEPT !.version = v, !.updated_at = u] : v \in {1, 2}, u \in {1, 2}}

\* C14: for a fixed policy there is one pattern of provenance (how many notes,
\* each from which input) that resolve_conflict follows whatever the version
\* and updated_at of the two notes; and on notes with the same id, version
\* and updated_at KeepBoth still returns the existing note and a renamed copy
\* of the imported one under a new id.
C14_ResolutionDependsOnPolicyAlone ==
    (call.op = "resolve_conflict" /\ ret.done) =>
        /\ \E t \in UNION {[1..n -> {"existing", "imported", "copy"}] : n \in 1..2} :
               \A e \in Revisions(call.existing), i \in Revisions(call.imported) :
                   LET out == IF e = call.existing /\ i = call.imported THEN ret.value
                              ELSE resolve_conflict(e, i, call.resolution, ret.fresh)
                   IN  /\ Len(out) = Len(t)
                       /\ \A k \in 1..Len(t) : t[k] \in Provenance(out[k], e, i)
        /\ ( /\ call.existing.id = call.imported.id
             /\ call.existing.version = call.imported.version
             /\ call.existing.updated_at = call.imported.updated_at
             /\ call.resolution = "KeepBoth" )
           => /\ Len(ret.value) = 2
              /\ ret.value[1] = call.existing
              /\ ret.value[2].id \notin {call.imported.id}
              /\ ret.value[2].title = call.imported.title \o ImportedCopySuffix

C14_Witness ==
    /\ call.op = "resolve_conflict" /\ ret.done
    /\ call.resolution = "KeepBoth"
    /\ call.existing = call.imported
    /\ Len(ret.value) = 2
    /\ ret.value[2].id # call.imported.id

\* The existing note an imported note is compared with: no note of its id
\* stands before it in the list.
IsFirstOfId(existing_notes, j) ==
    \A m \in 1..(j - 1) : existing_notes[m].id # existing_notes[j].id

\* C25: detect_conflicts returns at most one pair per imported note, leaves
\* both lists as they were, and pairs an imported note only with the first
\* existing note of its id: the pairs are, in order, the imported notes from
\* which that first note differs in version or updated_at, whatever later
\* notes of the same id hold.
C25_OnlyFirstExistingNoteIsCompared ==
    /\ []( (call.op = "detect_conflicts" /\ ret.done) =>
              /\ Len(ret.value) <= Len(call.imported)
              /\ ImportedOf(ret.value) =
                     SelectSeq(call.imported,
                         LAMBDA i : \E j \in 1..Len(call.existing) :
                                        /\ call.existing[j].id = i.id
                                        /\ IsFirstOfId(call.existing, j)
                                        /\ Diverge(call.existing[j], i))
              /\ \A q \in 1..Len(ret.value) :
                     \E j \in 1..Len(call.existing) :
                         /\ ret.value[q][1] = call.existing[j]
                         /\ call.existing[j].id = ret.value[q][2].id
                         /\ IsFirstOfId(call.existing, j) )
    /\ [][call.op = "detect_conflicts" => call' = call]_vars

\* The first existing note of the id agrees with the imported note, a later
\* one of the same id differs from it, and no pair is reported.
C25_Witness ==
    /\ call.op = "detect_conflicts" /\ ret.done
    /\ Len(call.existing) = 2 /\ Len(call.imported) = 1
    /\ call.existing[1].id = call.imported[1].id
    /\ call.existing[2].id = call.imported[1].id
    /\ ~Diverge(call.existing[1], call.imported[1])
    /\ Diverge(call.existing[2], call.imported[1])
    /\ ret.value = <<>>

\* C24: on lists with pairwise distinct ids, once every reported pair was
\* resolved, a second detection against the same imported list reports no
\* pair after Overwrite and the same pairs after Skip and after KeepBoth, and
\* no copy KeepBoth made is part of a pair.
C24_OverwriteThenDetectIsEmpty ==
    ( /\ call.op = "detect_conflicts" /\ imp.done
      /\ HasDistinctIds(call.existing) /\ HasDistinctIds(call.imported) )
    => /\ imp.resolution = "Overwrite" => imp.value = <<>>
       /\ imp.resolution \in {"Skip", "KeepBoth"} => imp.value = ret.value
       /\ \A q \in 1..Len(imp.value), k \in 1..Len(imp.local) :
              imp.local[k].id \notin IdsOf(call.existing)
                  => imp.value[q][1] # imp.local[k] /\ imp.value[q][2] # imp.local[k]

C24_Witness ==
    /\ call.op = "detect_conflicts" /\ imp.done
    /\ HasDistinctIds(call.existing) /\ HasDistinctIds(call.imported)
    /\ Len(ret.value) = 2
    /\ imp.resolution = "Overwrite"
    /\ imp.local = call.imported
    /\ imp.value = <<>>

(***************************************************************************)
(* Further properties of the vault codec (Spec).                           *)
(***************************************************************************)
\* C11: after a successful export of n notes the archive holds exactly one
\* metadata.json entry, whose record is a copy of the vault with note_count n
\* and schema version "1.0", and exactly one entry notes/<id>.json per note,
\* in the order of the input list, and nothing else.
C11_ExportWritesMetadataAndOneEntryPerNote ==
    (ret.done /\ ret.value.ok /\ ~fs.rewritten) =>
        LET n == Len(call.notes)
            metadata == ReadMetadata(IF fs.exists THEN fs.entries ELSE <<>>)
        IN  /\ fs.exists /\ fs.closed
            /\ Len(fs.entries) = n + 1
            /\ Cardinality(MetadataEntries(fs)) = 1
            /\ metadata.ok
            /\ metadata.value.vault = call.vault
            /\ metadata.value.note_count = n
            /\ metadata.value.version = "1.0"
            /\ LET written == SelectSeq(fs.entries, LAMBDA e : e.name # MetadataName)
               IN  /\ Len(written) = n
                   /\ \A k \in 1..n : written[k].name = NoteEntryName(call.notes[k].id)

C11_Witness ==
    /\ ret.done /\ ret.value.ok /\ ~fs.rewritten
    /\ Len(call.notes) = 2
    /\ call.notes[1].id = "u2" /\ call.notes[2].id = "u1"
    /\ Len(fs.entries) = 3

C23_CipherModeMismatchFails ==
    ( /\ ret.done /\ ret.value.ok /\ ~fs.rewritten
      /\ imp.done
      /\ call.encryption.some # imp.encryption.some )
    => IF Len(call.notes) >= 1
       THEN /\ call.encryption.some =>
                   imp.value \in {Err("InvalidFormat"), Err("SerializationError")}
            /\ ~call.encryption.some => imp.value = Err("EncryptionError")
       ELSE imp.value = Ok([vault |-> call.vault, notes |-> <<>>])

C23_Witness ==
    /\ ret.done /\ ret.value.ok /\ ~fs.rewritten
    /\ imp.done
    /\ ~call.encryption.some /\ imp.encryption.some
    /\ Len(call.notes) = 1
    /\ imp.value = Err("EncryptionError")

(***************************************************************************)
(* Properties of a note's life (SpecNote).                                 *)
(***************************************************************************)
\* C15: a note made by Note::new has version 1; every update, direct or
\* through null_space_update_note, leaves id and created_at as they were,
\* raises version by exactly 1 and never moves updated_at back, whatever
\* the version and updated_at the note had and whatever the clock reads.
C15_VersionAndTimesOnlyMoveForward ==
    [][ /\ (~held.exists /\ held'.exists) => held'.note.version = 1
        /\ (held.exists /\ held'.exists /\ held' # held) =>
               /\ held'.note.id = held.note.id
               /\ held'.note.created_at = held.note.created_at
               /\ held'.note.version = held.note.version + 1
               /\ held'.note.updated_at >= held.note.updated_at ]_vars

(***************************************************************************)
(* Properties of the AEAD layer (SpecCrypto).                              *)
(***************************************************************************)
\* The cipher new_from_password gives for the credentials of handle h.
CipherOf(h) == new_from_password(call.password[h], call.salt[h]).value

SameCredentials(g, h) ==
    call.password[g] = call.password[h] /\ call.salt[g] = call.salt[h]

\* C16: a blob encrypt returned under a manager derived from a passphrase and
\* salt, with no byte changed, decrypts to exactly the plaintext under any
\* manager derived from the same passphrase and salt.
C16_RoundTripAcrossManagers ==
    ( /\ dec.done
      /\ Untouched(blobs[dec.blob])
      /\ SameCredentials(dec.handle, blobs[dec.blob].by) )
    => dec.value = Ok(call.plaintext)

C16_Witness ==
    /\ dec.done
    /\ Untouched(blobs[dec.blob])
    /\ dec.handle # blobs[dec.blob].by
    /\ SameCredentials(dec.handle, blobs[dec.blob].by)
    /\ call.plaintext.kind = "utf8"
    /\ dec.value = Ok(call.plaintext)

\* C17: two blobs encrypt returned for the same plaintext under the same
\* manager differ, each carrying in front the nonce it was made under, no
\* nonce twice, and both decrypt to the plaintext.
C17_EncryptIsRandomized ==
    \A i, j \in 1..Len(blobs) :
        ( /\ i # j
          /\ blobs[i].by = blobs[j].by
          /\ Untouched(blobs[i]) /\ Untouched(blobs[j]) )
        => /\ blobs[i].data # blobs[j].data
           /\ blobs[i].data.nonce # blobs[j].data.nonce
           /\ blobs[i].data.nonce = blobs[i].data.iv
           /\ decrypt(CipherOf(blobs[i].by), blobs[i].data) = Ok(call.plaintext)
           /\ decrypt(CipherOf(blobs[j].by), blobs[j].data) = Ok(call.plaintext)
           /\ (dec.done /\ dec.handle = blobs[i].by /\ dec.blob \in {i, j})
                  => dec.value = Ok(call.plaintext)

C17_Witness ==
    /\ Len(blobs) = 2
    /\ blobs[1].by = blobs[2].by
    /\ Untouched(blobs[1]) /\ Untouched(blobs[2])
    /\ blobs[1].data.plain = blobs[2].data.plain
    /\ dec.done /\ dec.handle = blobs[1].by /\ dec.blob = 2
    /\ dec.value = Ok(call.plaintext)

\* C18: a blob with one byte changed, in the nonce, the ciphertext or the
\* tag, does not decrypt under the key it was made with: the result is the
\* error DecryptionFailed, never a plaintext.
C18_ChangedByteFailsDecryption ==
    /\ ( /\ dec.done
         /\ ~Untouched(blobs[dec.blob])
         /\ SameCredentials(dec.handle, blobs[dec.blob].by) )
       => ~dec.value.ok /\ dec.value.err = "DecryptionFailed"
    /\ (dec.done /\ dec.value.ok) => dec.value.value = call.plaintext

C18_Witness ==
    /\ dec.done
    /\ blobs[dec.blob].flipped = "nonce"
    /\ SameCredentials(dec.handle, blobs[dec.blob].by)
    /\ ~dec.value.ok

\* C19: a dropped manager holds no key: the memory of its cipher was
\* overwritten with zeros.
C19_DroppedManagerHoldsNoKey ==
    \A h \in Handles :
        managers[h].state = "dropped" => managers[h].cipher = Zeroed

\* C20: the error decrypt returns for a blob under another key is, variant
\* and message, the error it returns under the right key for that blob with
\* any one byte changed.
C20_WrongKeyAndChangedBytesFailAlike ==
    ( /\ dec.done
      /\ Untouched(blobs[dec.blob])
      /\ CipherOf(dec.handle) # CipherOf(blobs[dec.blob].by) )
    => /\ ~dec.value.ok
       /\ \A part \in Parts(blobs[dec.blob].data) :
              \A data \in FlipByteIn(blobs[dec.blob].data, part) :
                  decrypt(CipherOf(blobs[dec.blob].by), data) = dec.value

C20_Witness ==
    /\ dec.done
    /\ Untouched(blobs[dec.blob])
    /\ CipherOf(dec.handle) # CipherOf(blobs[dec.blob].by)
    /\ dec.value = [ok |-> FALSE, err |-> "DecryptionFailed", msg |-> "aead::Error"]

\* C21: decrypt of a blob shorter than 12 bytes, the empty one included, is
\* the error DecryptionFailed raised by the length test before the cipher is
\* tried; decrypt of a blob of exactly 12 bytes is DecryptionFailed too,
\* raised by the cipher.
C21_ShortBlobsAreRejected ==
    dec.done =>
        LET data == blobs[dec.blob].data
        IN  /\ ByteLen(data) < NonceLen =>
                   dec.value = [ok |-> FALSE, err |-> "DecryptionFailed",
                                msg |-> "Data too short to contain nonce"]
            /\ ByteLen(data) = NonceLen =>
                   dec.value = [ok |-> FALSE, err |-> "DecryptionFailed",
                                msg |-> "aead::Error"]

C21_Witness ==
    /\ dec.done
    /\ ByteLen(blobs[dec.blob].data) = 0
    /\ ~dec.value.ok
    /\ dec.value.err = "DecryptionFailed"

(***************************************************************************)
(* Properties of the C interface (SpecFfi).                                *)
(***************************************************************************)
\* Every notes/*.json entry of the file is the plain JSON text of a note.
NoteEntriesArePlain(file) ==
    \A i \in NoteEntryIndexes(file) :
        /\ file.entries[i].data.kind = "utf8"
        /\ NoteFromJson(file.entries[i].data.json).ok

====
